---- MODULE Spec2Model ----
(***************************************************************************)
(* Message delivery protocol of the chat application: the WebSocket server *)
(* (backend/server.js) and the browser client (chat.js).                   *)
(*                                                                         *)
(* A connection is a pair <<user, slot>>.  Each end has its own view of    *)
(* the connection (the browser's readyState, the server's ws.readyState)   *)
(* and each direction has its own FIFO of frames in flight.  A slot whose  *)
(* two ends are closed is free and can carry a later connection.           *)
(***************************************************************************)
EXTENDS Integers, Sequences, FiniteSets, TLC

\* ---------------------------------------------------------------- bounds
NumSlots == 2
MaxSends == 2
MaxDeliveries == 1
MaxMsgs == 2
MaxQueue == 2
MaxDrops == 1
MaxConnFailures == 6

\* ------------------------------------------------------ program constants
MAX_RECONNECT_ATTEMPTS == 5
BASE_DELAY == 1000
DELAY_CAP == 30000

Users == {"alice", "bob"}
Slots == 1..NumSlots
Conns == Users \X Slots

VARIABLES
  client,    \* client[u]: the state of u's ChatApp closure (chat.js)
  cstate,    \* cstate[k]: readyState of the browser's WebSocket of connection k
  sstate,    \* sstate[k]: readyState of the server's ws of connection k
  s2c,       \* s2c[k]: frames sent by the server, not yet received by the client
  c2s,       \* c2s[k]: frames sent by the client, not yet received by the server
  registry,  \* sockets module: username -> slot of the registered ws (0: none)
  outbox,    \* messages module: stored messages, in insertion order
  nextId,    \* number of server message ids generated so far, plus one
  recv,      \* <<side, k, frame>>: the frame the last step's 'message' handler got
             \* (of the client's handler: under any server only)
  sent,      \* frames written by the server handler that ran last: <<k, frame>>
  budget     \* number of connection failures the environment may still cause

vars == <<client, cstate, sstate, s2c, c2s, registry, outbox, nextId, recv, sent, budget>>

\* ---------------------------------------------------------------- helpers
Min(a, b) == IF a < b THEN a ELSE b

RECURSIVE Pow2(_)
Pow2(n) == IF n <= 0 THEN 1 ELSE 2 * Pow2(n - 1)

RECURSIVE Count(_, _)
Count(seq, e) ==
  IF seq = <<>> THEN 0
  ELSE (IF Head(seq) = e THEN 1 ELSE 0) + Count(Tail(seq), e)

\* ------------------------------------------------- messages module (store)
addMessage(box, msg) == Append(box, msg)

HasMessage(box, id) == \E i \in 1..Len(box) : box[i].serverMsgId = id

getMessage(box, id) == box[CHOOSE i \in 1..Len(box) : box[i].serverMsgId = id]

removeMessage(box, id) == SelectSeq(box, LAMBDA m : m.serverMsgId # id)

getMessagesForUser(box, username) == SelectSeq(box, LAMBDA m : m.to = username)

\* -------------------------------------------------- sockets module (registry)
registerUser(reg, username, ws) == [reg EXCEPT ![username] = ws]

unregisterUser(reg, username) == [reg EXCEPT ![username] = 0]

getSocket(reg, username) == IF username \in DOMAIN reg THEN reg[username] ELSE 0

getOnlineUsers(reg) == {u \in Users : reg[u] # 0}

\* ------------------------------------------------------------ server side
\* socket && socket.readyState === WebSocket.OPEN, for the registered socket
\* of `username` under the readyStates rs.
RegisteredOpen(reg, rs, username) ==
  /\ getSocket(reg, username) # 0
  /\ rs[<<username, getSocket(reg, username)>>] = "open"

\* The frames broadcastPresence writes.
broadcastPresence(reg, rs, username, status) ==
  LET targets == {u \in getOnlineUsers(reg) : u # username /\ RegisteredOpen(reg, rs, u)}
      order == CHOOSE f \in [1..Cardinality(targets) -> targets] :
                 \A i, j \in 1..Cardinality(targets) : f[i] = f[j] => i = j
  IN [i \in 1..Cardinality(targets) |->
        <<<<order[i], reg[order[i]]>>,
          [type |-> "presence_update", user |-> username, status |-> status]>>]

\* sendUndeliveredMessages sending every stored message, whoever it is for.
sendUndeliveredMessages_all(box, username, ws) ==
  LET undelivered == box
  IN IF Len(undelivered) > 0
     THEN << <<ws, [type |-> "undelivered_batch",
                    messages |-> [i \in 1..Len(undelivered) |->
                       [serverMsgId |-> undelivered[i].serverMsgId,
                        from |-> undelivered[i].from,
                        body |-> undelivered[i].body]]]>> >>
     ELSE <<>>

\* The frames sendUndeliveredMessages writes on ws.
sendUndeliveredMessages(box, username, ws) ==
  LET undelivered == getMessagesForUser(box, username)
  IN IF Len(undelivered) > 0
     THEN << <<ws, [type |-> "undelivered_batch",
                    messages |-> [i \in 1..Len(undelivered) |->
                       [serverMsgId |-> undelivered[i].serverMsgId,
                        from |-> undelivered[i].from,
                        body |-> undelivered[i].body]]]>> >>
     ELSE <<>>

\* The server's writes reach the queue of a connection whose browser end is
\* still there; a write on a connection the browser has left is lost.
RECURSIVE Deliver(_, _)
Deliver(q, writes) ==
  IF writes = <<>> THEN q
  ELSE LET k == Head(writes)[1]
           f == Head(writes)[2]
       IN Deliver(IF cstate[k] = "closed" THEN q ELSE [q EXCEPT ![k] = Append(@, f)],
                  Tail(writes))

QueuesBounded(q) == \A k \in Conns : Len(q[k]) <= MaxQueue

\* The validation of handleSendMessage not looking at the body.
ValidSend_noBody(message) ==
  /\ message.clientMsgId # 0
  /\ message.to # ""

\* handleSendMessage: the outbox, the id counter and the frames written.
ValidSend(message) ==
  /\ message.clientMsgId # 0
  /\ message.to # ""
  /\ message.body # ""

\* handleSendMessage storing the message only when the recipient is offline.
handleSendMessage_storeOffline(from, message, reg, rs, box, id) ==
  IF ~ValidSend(message)
  THEN [outbox |-> box, nextId |-> id, writes |-> <<>>]
  ELSE LET msg == [serverMsgId |-> id, clientMsgId |-> message.clientMsgId,
                   from |-> from, to |-> message.to, body |-> message.body]
           online == RegisteredOpen(reg, rs, msg.to)
           forward == IF online
                      THEN << <<<<msg.to, getSocket(reg, msg.to)>>,
                                [type |-> "incoming_message",
                                 serverMsgId |-> msg.serverMsgId,
                                 from |-> msg.from, body |-> msg.body]>> >>
                      ELSE <<>>
           receipt == IF RegisteredOpen(reg, rs, from)
                      THEN << <<<<from, getSocket(reg, from)>>,
                                [type |-> "ack_message",
                                 serverMsgId |-> msg.serverMsgId,
                                 clientMsgId |-> msg.clientMsgId,
                                 to |-> msg.to]>> >>
                      ELSE <<>>
       IN [outbox |-> IF online THEN box ELSE addMessage(box, msg), nextId |-> id + 1,
           writes |-> forward \o receipt]

handleSendMessage(from, message, reg, rs, box, id) ==
  IF ~ValidSend(message)
  THEN [outbox |-> box, nextId |-> id, writes |-> <<>>]
  ELSE LET msg == [serverMsgId |-> id, clientMsgId |-> message.clientMsgId,
                   from |-> from, to |-> message.to, body |-> message.body]
           forward == IF RegisteredOpen(reg, rs, msg.to)
                      THEN << <<<<msg.to, getSocket(reg, msg.to)>>,
                                [type |-> "incoming_message",
                                 serverMsgId |-> msg.serverMsgId,
                                 from |-> msg.from, body |-> msg.body]>> >>
                      ELSE <<>>
           receipt == IF RegisteredOpen(reg, rs, from)
                      THEN << <<<<from, getSocket(reg, from)>>,
                                [type |-> "ack_message",
                                 serverMsgId |-> msg.serverMsgId,
                                 clientMsgId |-> msg.clientMsgId,
                                 to |-> msg.to]>> >>
                      ELSE <<>>
       IN [outbox |-> addMessage(box, msg), nextId |-> id + 1,
           writes |-> forward \o receipt]

\* handleAckMessage without the check of the acknowledging user.
handleAckMessage_anyUser(username, message, box) ==
  IF message.serverMsgId = 0 THEN box
  ELSE IF HasMessage(box, message.serverMsgId)
       THEN removeMessage(box, message.serverMsgId)
       ELSE box

\* handleAckMessage removing the entry first and comparing the user after.
handleAckMessage_removeFirst(username, message, box) ==
  IF message.serverMsgId = 0 THEN box
  ELSE removeMessage(box, message.serverMsgId)

\* handleAckMessage: the outbox after it.
handleAckMessage(username, message, box) ==
  IF message.serverMsgId = 0 THEN box
  ELSE IF HasMessage(box, message.serverMsgId)
          /\ getMessage(box, message.serverMsgId).to = username
       THEN removeMessage(box, message.serverMsgId)
       ELSE box

\* handleMessage answering an acknowledgment that removes nothing with an error.
handleMessage_ackError(k, message, reg, rs, box, id) ==
  CASE message.type = "send_message" ->
         handleSendMessage(k[1], message, reg, rs, box, id)
    [] message.type = "ack_message" ->
         [outbox |-> handleAckMessage(k[1], message, box), nextId |-> id,
          writes |-> IF handleAckMessage(k[1], message, box) = box /\ rs[k] = "open"
                     THEN << <<k, [type |-> "error"]>> >> ELSE <<>>]
    [] message.type = "ping" ->
         [outbox |-> box, nextId |-> id,
          writes |-> IF rs[k] = "open" THEN << <<k, [type |-> "pong"]>> >> ELSE <<>>]
    [] OTHER ->
         [outbox |-> box, nextId |-> id,
          writes |-> IF rs[k] = "open" THEN << <<k, [type |-> "error"]>> >> ELSE <<>>]

\* handleMessage of server.js: dispatch on the frame's type.
handleMessage(k, message, reg, rs, box, id) ==
  CASE message.type = "send_message" ->
         handleSendMessage(k[1], message, reg, rs, box, id)
    [] message.type = "ack_message" ->
         [outbox |-> handleAckMessage(k[1], message, box), nextId |-> id,
          writes |-> <<>>]
    [] message.type = "ping" ->
         [outbox |-> box, nextId |-> id,
          writes |-> IF rs[k] = "open" THEN << <<k, [type |-> "pong"]>> >> ELSE <<>>]
    [] OTHER ->
         [outbox |-> box, nextId |-> id,
          writes |-> IF rs[k] = "open" THEN << <<k, [type |-> "error"]>> >> ELSE <<>>]

\* ------------------------------------------------------------ client side
\* The closure's variables after the module is loaded, before init runs.
\* elems[c] is the DOM element made for the message sent with clientMsgId c,
\* which stays reachable through pendingMessages after the container is cleared.
\* reconnectTimer is the delay of the timer it refers to (0: null); timers is
\* the number of setTimeout callbacks that have not run yet.
InitClient ==
  [started |-> FALSE, socket |-> 0, reconnectAttempts |-> 0, reconnectTimer |-> 0,
   timers |-> 0,
   seenMessageIds |-> {}, pendingMessages |-> {}, elems |-> <<>>,
   container |-> <<>>, selectedContact |-> "", status |-> ""]

updateConnectionStatus(c, message) == [c EXCEPT !.status = message]

\* scheduleReconnect with the exponent one too high.
scheduleReconnect_exponent(c) ==
  IF c.reconnectTimer # 0 THEN c
  ELSE LET attempts == c.reconnectAttempts + 1
           delay == Min(BASE_DELAY * Pow2(attempts), DELAY_CAP)
       IN [c EXCEPT !.status = "Reconnecting",
                    !.reconnectAttempts = attempts, !.reconnectTimer = delay,
                    !.timers = @ + 1]

\* scheduleReconnect without the check for a pending timer.
scheduleReconnect_noGuard(c) ==
  LET attempts == c.reconnectAttempts + 1
      delay == Min(BASE_DELAY * Pow2(attempts - 1), DELAY_CAP)
  IN [updateConnectionStatus(c, "Reconnecting")
        EXCEPT !.reconnectAttempts = attempts, !.reconnectTimer = delay,
               !.timers = @ + 1]

scheduleReconnect(c) ==
  IF c.reconnectTimer # 0 THEN c
  ELSE LET attempts == c.reconnectAttempts + 1
           delay == Min(BASE_DELAY * Pow2(attempts - 1), DELAY_CAP)
       IN [updateConnectionStatus(c, "Reconnecting")
             EXCEPT !.reconnectAttempts = attempts, !.reconnectTimer = delay,
                    !.timers = @ + 1]

\* connect: `throws` says whether new WebSocket(wsUrl) throws; otherwise the
\* new socket is the one of connection slot `slot`.
connect(c, slot, throws) ==
  IF throws
  THEN scheduleReconnect(updateConnectionStatus(c, "Connecting..."))
  ELSE [updateConnectionStatus(c, "Connecting...") EXCEPT !.socket = slot]

\* handleOpen leaving the attempt counter as it is.
handleOpen_noReset(c) ==
  updateConnectionStatus(c, "Connected")

handleOpen(c) ==
  [updateConnectionStatus(c, "Connected") EXCEPT !.reconnectAttempts = 0]

\* handleClose not looking at event.wasClean.
handleClose_anyClose(c, wasClean) ==
  LET c1 == updateConnectionStatus(c, "Disconnected")
  IN IF c1.reconnectAttempts < MAX_RECONNECT_ATTEMPTS
     THEN scheduleReconnect(c1)
     ELSE updateConnectionStatus(c1, "Connection failed. Please refresh.")

handleClose(c, wasClean) ==
  LET c1 == updateConnectionStatus(c, "Disconnected")
  IN IF ~wasClean /\ c1.reconnectAttempts < MAX_RECONNECT_ATTEMPTS
     THEN scheduleReconnect(c1)
     ELSE IF c1.reconnectAttempts >= MAX_RECONNECT_ATTEMPTS
          THEN updateConnectionStatus(c1, "Connection failed. Please refresh.")
          ELSE c1

\* appendMessage for a received message: shown only in the conversation with
\* the selected contact (or when none is selected).
appendReceived(c, from, serverMsgId) ==
  IF c.selectedContact # "" /\ from # c.selectedContact
  THEN c
  ELSE [c EXCEPT !.container = Append(@, <<"received", serverMsgId>>)]

\* handleIncomingMessage without the check for duplicates.
handleIncomingMessage_noDedupe(r, data, open) ==
  [c   |-> appendReceived(
             [r.c EXCEPT !.seenMessageIds = @ \cup {data.serverMsgId}],
             data.from, data.serverMsgId),
   out |-> IF open
           THEN Append(r.out, [type |-> "ack_message",
                               serverMsgId |-> data.serverMsgId])
           ELSE r.out]

\* A client handler's result: the closure's state and the frames it sent.
handleIncomingMessage(r, data, open) ==
  IF data.serverMsgId \in r.c.seenMessageIds
  THEN r
  ELSE [c   |-> appendReceived(
                  [r.c EXCEPT !.seenMessageIds = @ \cup {data.serverMsgId}],
                  data.from, data.serverMsgId),
        out |-> IF open
                THEN Append(r.out, [type |-> "ack_message",
                                    serverMsgId |-> data.serverMsgId])
                ELSE r.out]

\* handleUndeliveredBatch going through the batch from its end.
RECURSIVE handleUndeliveredBatch_reversed(_, _, _)
handleUndeliveredBatch_reversed(r, messages, open) ==
  IF messages = <<>> THEN r
  ELSE handleIncomingMessage(
         handleUndeliveredBatch_reversed(r, Tail(messages), open),
         Head(messages), open)

RECURSIVE handleUndeliveredBatch(_, _, _)
handleUndeliveredBatch(r, messages, open) ==
  IF messages = <<>> THEN r
  ELSE handleUndeliveredBatch(handleIncomingMessage(r, Head(messages), open),
                              Tail(messages), open)

\* handleAckMessage of chat.js confirming the oldest pending message whatever
\* clientMsgId the frame carries.
chat_handleAckMessage_oldestPending(c, data) ==
  IF c.pendingMessages # {}
  THEN LET oldest == CHOOSE i \in c.pendingMessages :
                       \A j \in c.pendingMessages : i <= j
       IN [c EXCEPT !.elems[oldest] =
                       [@ EXCEPT !.pending = FALSE, !.delivered = TRUE,
                                 !.serverMsgId = data.serverMsgId],
                    !.pendingMessages = @ \ {oldest}]
  ELSE c

chat_handleAckMessage(c, data) ==
  IF data.clientMsgId # 0 /\ data.clientMsgId \in c.pendingMessages
  THEN [c EXCEPT !.elems[data.clientMsgId] =
                    [@ EXCEPT !.pending = FALSE, !.delivered = TRUE,
                              !.serverMsgId = data.serverMsgId],
                 !.pendingMessages = @ \ {data.clientMsgId}]
  ELSE c

\* handleMessage of chat.js: dispatch on the frame's type.
chat_handleMessage(c, data, open) ==
  CASE data.type = "incoming_message" ->
         handleIncomingMessage([c |-> c, out |-> <<>>], data, open)
    [] data.type = "ack_message" ->
         [c |-> chat_handleAckMessage(c, data), out |-> <<>>]
    [] data.type = "undelivered_batch" ->
         handleUndeliveredBatch([c |-> c, out |-> <<>>], data.messages, open)
    [] OTHER -> [c |-> c, out |-> <<>>]

\* sendMessage not marking the element when the socket is not open.
sendMessage_noFailedMark(c, body, open) ==
  IF body = "" \/ c.selectedContact = ""
  THEN [c |-> c, out |-> <<>>]
  ELSE LET clientMsgId == Len(c.elems) + 1
           element == [pending |-> TRUE, delivered |-> FALSE, failed |-> FALSE,
                       serverMsgId |-> 0]
       IN [c   |-> [c EXCEPT !.elems = Append(@, element),
                             !.container = Append(@, <<"sent", clientMsgId>>),
                             !.pendingMessages = @ \cup {clientMsgId}],
           out |-> IF open
                   THEN <<[type |-> "send_message", clientMsgId |-> clientMsgId,
                           to |-> c.selectedContact, body |-> body]>>
                   ELSE <<>>]

sendMessage(c, body, open) ==
  IF body = "" \/ c.selectedContact = ""
  THEN [c |-> c, out |-> <<>>]
  ELSE LET clientMsgId == Len(c.elems) + 1
           element == [pending |-> TRUE, delivered |-> FALSE, failed |-> ~open,
                       serverMsgId |-> 0]
       IN [c   |-> [c EXCEPT !.elems = Append(@, element),
                             !.container = Append(@, <<"sent", clientMsgId>>),
                             !.pendingMessages = @ \cup {clientMsgId}],
           out |-> IF open
                   THEN <<[type |-> "send_message", clientMsgId |-> clientMsgId,
                           to |-> c.selectedContact, body |-> body]>>
                   ELSE <<>>]

selectContact(c, contact) ==
  [c EXCEPT !.selectedContact = contact, !.container = <<>>]

\* ------------------------------------------------------------------ state
InitWith(failures) ==
  /\ client = [u \in Users |-> InitClient]
  /\ cstate = [k \in Conns |-> "closed"]
  /\ sstate = [k \in Conns |-> "closed"]
  /\ s2c = [k \in Conns |-> <<>>]
  /\ c2s = [k \in Conns |-> <<>>]
  /\ registry = [u \in Users |-> 0]
  /\ outbox = <<>>
  /\ nextId = 1
  /\ recv = <<>>
  /\ sent = <<>>
  /\ budget = failures

Init == InitWith(MaxDrops)

\* The slots of u that carry no connection.
FreeSlots(u) == {s \in Slots : cstate[<<u, s>>] = "closed" /\ sstate[<<u, s>>] = "closed"}

\* socket && socket.readyState === WebSocket.OPEN in chat.js
SocketOpen(u) == client[u].socket # 0 /\ cstate[<<u, client[u].socket>>] = "open"

\* The client's writes on its socket; a write on a connection whose server end
\* is gone is lost.
ClientWrite(u, out) ==
  LET k == <<u, client[u].socket>>
  IN IF out = <<>> \/ sstate[k] = "closed" THEN c2s
     ELSE [c2s EXCEPT ![k] = @ \o out]

\* connect(token, user), called by init and by the reconnection timer, from
\* the closure state c.
DoConnect(u, c, throws) ==
  /\ throws \/ FreeSlots(u) # {}
  /\ throws => budget > 0
  /\ budget' = IF throws THEN budget - 1 ELSE budget
  /\ LET slot == IF throws THEN 0
                 ELSE CHOOSE s \in FreeSlots(u) : \A t \in FreeSlots(u) : s <= t
     IN /\ client' = [client EXCEPT ![u] = connect(c, slot, throws)]
        /\ cstate' = IF throws THEN cstate
                     ELSE [cstate EXCEPT ![<<u, slot>>] = "connecting"]
        /\ sstate' = IF throws THEN sstate
                     ELSE [sstate EXCEPT ![<<u, slot>>] = "none"]
  /\ recv' = <<>>
  /\ sent' = <<>>
  /\ UNCHANGED <<s2c, c2s, registry, outbox, nextId>>

\* ---------------------------------------------------------- client actions
\* ChatApp.init: the page has token and user in its URL.
ClientInit(u, throws) ==
  /\ ~client[u].started
  /\ DoConnect(u, [client[u] EXCEPT !.started = TRUE], throws)

\* The reconnection timer's callback.
TimerFires(u, throws) ==
  /\ client[u].timers > 0
  /\ DoConnect(u, [client[u] EXCEPT !.reconnectTimer = 0, !.timers = @ - 1], throws)

\* ChatApp.init called again by the page: init is the public API of chat.js
\* and connects whenever it is called.
ClientInitAgain(u, throws) ==
  /\ client[u].started
  /\ DoConnect(u, client[u], throws)

\* socket.onopen
ClientOpens(k) ==
  /\ cstate[k] = "connecting"
  /\ cstate' = [cstate EXCEPT ![k] = "open"]
  /\ client' = [client EXCEPT ![k[1]] = handleOpen(@)]
  /\ recv' = <<>>
  /\ sent' = <<>>
  /\ UNCHANGED <<sstate, s2c, c2s, registry, outbox, nextId, budget>>

\* socket.onmessage for the frame `frame`, `rest` being the frames behind it.
ClientReceive(k, frame, rest) ==
  /\ cstate[k] = "open"
  /\ LET r == chat_handleMessage(client[k[1]], frame, SocketOpen(k[1]))
     IN /\ client' = [client EXCEPT ![k[1]] = r.c]
        /\ c2s' = ClientWrite(k[1], r.out)
  /\ QueuesBounded(c2s')
  /\ s2c' = [s2c EXCEPT ![k] = rest]
  /\ sent' = <<>>
  /\ UNCHANGED <<cstate, sstate, registry, outbox, nextId, budget>>

\* socket.onclose: the browser's end of the connection closes; frames still on
\* their way to it are lost.  A connection the server never saw is gone.
ClientOnClose(k, wasClean) ==
  /\ cstate[k] \in {"connecting", "open"}
  /\ ~wasClean => budget > 0
  /\ budget' = IF wasClean THEN budget ELSE budget - 1
  /\ cstate' = [cstate EXCEPT ![k] = "closed"]
  /\ sstate' = IF sstate[k] = "none" THEN [sstate EXCEPT ![k] = "closed"] ELSE sstate
  /\ s2c' = [s2c EXCEPT ![k] = <<>>]
  /\ client' = [client EXCEPT ![k[1]] = handleClose(@, wasClean)]
  /\ recv' = <<>>
  /\ sent' = <<>>
  /\ UNCHANGED <<c2s, registry, outbox, nextId>>

\* The handshake's answer of the server arrives.
ClientOnOpen(k) ==
  /\ sstate[k] # "none"
  /\ ClientOpens(k)

\* The oldest frame in flight from the server arrives.
ClientOnMessage(k) ==
  /\ s2c[k] # <<>>
  /\ ClientReceive(k, Head(s2c[k]), Tail(s2c[k]))
  /\ recv' = <<>>

\* The send button or the Enter key, with `body` the trimmed input.
SendMessage(u, body) ==
  /\ client[u].started
  /\ Len(client[u].elems) < MaxSends
  /\ LET r == sendMessage(client[u], body, SocketOpen(u))
     IN /\ client' = [client EXCEPT ![u] = r.c]
        /\ c2s' = ClientWrite(u, r.out)
  /\ QueuesBounded(c2s')
  /\ recv' = <<>>
  /\ sent' = <<>>
  /\ UNCHANGED <<cstate, sstate, s2c, registry, outbox, nextId, budget>>

\* A click on a contact of the contacts list.
SelectContact(u, contact) ==
  /\ client[u].started
  /\ client' = [client EXCEPT ![u] = selectContact(@, contact)]
  /\ recv' = <<>>
  /\ sent' = <<>>
  /\ UNCHANGED <<cstate, sstate, s2c, c2s, registry, outbox, nextId, budget>>

\* ---------------------------------------------------------- server actions
\* wss.on('connection') past the checks of token and username.
ServerRegister(k) ==
  /\ LET rs == [sstate EXCEPT ![k] = "open"]
         reg == registerUser(registry, k[1], k[2])
         writes == broadcastPresence(reg, rs, k[1], "online")
                   \o sendUndeliveredMessages(outbox, k[1], k)
     IN /\ sstate' = rs
        /\ registry' = reg
        /\ s2c' = Deliver(s2c, writes)
        /\ sent' = writes
  /\ QueuesBounded(s2c')
  /\ UNCHANGED <<client, cstate, c2s, outbox, nextId, budget>>

\* wss.on('connection') for a request whose token and username are valid.
ServerAccept(k) ==
  /\ ServerRegister(k)
  /\ recv' = <<>>

\* The token of a request: none, or what its base64 text decodes to, which is
\* the user it names, whether its signature is the HMAC of its payload under
\* TOKEN_SECRET, and whether it is older than 24 hours.
MissingToken == [present |-> FALSE, user |-> "", signed |-> FALSE, expired |-> FALSE]

Tokens ==
  {MissingToken}
  \cup {[present |-> TRUE, user |-> u, signed |-> b, expired |-> e] :
          u \in Users, b \in BOOLEAN, e \in BOOLEAN}

\* validateToken without the check of the user the token names.
validateToken_anyUser(token, username) ==
  IF ~token.signed THEN FALSE
  ELSE IF token.expired THEN FALSE
  ELSE TRUE

validateToken(token, username) ==
  IF token.user # username THEN FALSE
  ELSE IF ~token.signed THEN FALSE
  ELSE IF token.expired THEN FALSE
  ELSE TRUE

\* wss.on('connection') for any request: on the connection k, with the query
\* parameters token and user.  A rejected request gets ws.close and no handler.
ServerConnection(k, token, username) ==
  /\ recv' = <<"connect", k, [token |-> token, username |-> username]>>
  /\ IF ~token.present \/ username = "" \/ ~validateToken(token, username)
     THEN /\ sstate' = [sstate EXCEPT ![k] = "rejected"]
          /\ sent' = <<>>
          /\ UNCHANGED <<client, cstate, s2c, c2s, registry, outbox, nextId, budget>>
     ELSE ServerRegister(k)

\* The rejected connection is closed: no 'close' handler was attached to it.
RejectedCloses(k) ==
  /\ sstate[k] = "rejected"
  /\ sstate' = [sstate EXCEPT ![k] = "closed"]
  /\ recv' = <<>>
  /\ sent' = <<>>
  /\ UNCHANGED <<client, cstate, s2c, c2s, registry, outbox, nextId, budget>>

\* ws.on('message') for the frame `frame`, `rest` being the frames behind it.
ServerHandle(k, frame, rest) ==
  /\ sstate[k] \in {"open", "closing"}
  /\ LET r == handleMessage(k, frame, registry, sstate, outbox, nextId)
     IN /\ r.nextId <= MaxMsgs + 1
        /\ outbox' = r.outbox
        /\ nextId' = r.nextId
        /\ s2c' = Deliver(s2c, r.writes)
        /\ recv' = <<"server", k, frame>>
        /\ sent' = r.writes
  /\ QueuesBounded(s2c')
  /\ c2s' = [c2s EXCEPT ![k] = rest]
  /\ UNCHANGED <<client, cstate, sstate, registry, budget>>

\* The connection request of a chat.js client reaches the server.
ServerOnConnection(k) ==
  /\ sstate[k] = "none"
  /\ cstate[k] = "connecting"
  /\ ServerAccept(k)

\* The oldest frame in flight from a chat.js client arrives.
ServerOnMessage(k) ==
  /\ c2s[k] # <<>>
  /\ ServerHandle(k, Head(c2s[k]), Tail(c2s[k]))

\* The server's end starts closing: ws.readyState is CLOSING, frames received
\* before still raise 'message'.
ServerSocketClosing(k) ==
  /\ sstate[k] = "open"
  /\ sstate' = [sstate EXCEPT ![k] = "closing"]
  /\ recv' = <<>>
  /\ sent' = <<>>
  /\ UNCHANGED <<client, cstate, s2c, c2s, registry, outbox, nextId, budget>>

\* ws.on('close')
ServerOnClose(k) ==
  /\ sstate[k] \in {"open", "closing"}
  /\ LET rs == [sstate EXCEPT ![k] = "closed"]
         reg == unregisterUser(registry, k[1])
         writes == broadcastPresence(reg, rs, k[1], "offline")
     IN /\ sstate' = rs
        /\ registry' = reg
        /\ s2c' = Deliver(s2c, writes)
        /\ recv' = <<>>
        /\ sent' = writes
  /\ QueuesBounded(s2c')
  /\ c2s' = [c2s EXCEPT ![k] = <<>>]
  /\ UNCHANGED <<client, cstate, outbox, nextId, budget>>

\* ------------------------------------------------- any WebSocket client
\* The frames a WebSocket client can write, those chat.js never writes
\* included: a send_message with a field missing (0, ""), an acknowledgment of
\* any id or of none, a ping, a frame of an unknown type.
AnyFrames ==
  {[type |-> "send_message", clientMsgId |-> 1, to |-> "bob", body |-> "hi"]}
  \cup {[type |-> "send_message", clientMsgId |-> f[1], to |-> f[2], body |-> f[3]] :
           f \in {<<0, "bob", "hi">>, <<1, "", "hi">>, <<1, "bob", "">>}}
  \cup {[type |-> "ack_message", serverMsgId |-> i] : i \in 0..MaxMsgs}
  \cup {[type |-> "ping"], [type |-> "typing"]}

\* A client holding a valid token connects, on the first free slot.
AnyConnection(k) ==
  /\ k[2] \in FreeSlots(k[1])
  /\ ServerAccept(k)

\* A frame written by the client of connection k arrives.
AnyMessage(k, frame) ==
  /\ c2s[k] = <<>>
  /\ ServerHandle(k, frame, <<>>)

\* --------------------------------------------------------- any server
\* The frames a server can write to a client, those server.js never writes
\* included: a batch naming an id twice, an acknowledgment of any clientMsgId.
AnyIncoming == {[serverMsgId |-> i, from |-> "alice", body |-> "hi"] : i \in 1..MaxMsgs}

MessageFrames ==
  {[type |-> "incoming_message", serverMsgId |-> m.serverMsgId, from |-> m.from,
    body |-> m.body] : m \in AnyIncoming}
  \cup {[type |-> "undelivered_batch", messages |-> b] :
          b \in {<<m>> : m \in AnyIncoming} \cup {<<m, n>> : m, n \in AnyIncoming}}

ReceiptFrames ==
  {[type |-> "ack_message", serverMsgId |-> 1, clientMsgId |-> c, to |-> "alice"] :
      c \in 0..MaxSends}

OtherFrames ==
  {[type |-> "presence_update", user |-> "alice", status |-> "online"], [type |-> "error"]}

AnyServerFrames == MessageFrames \cup ReceiptFrames \cup OtherFrames

\* The connection opens.
AnyOpen(k) == ClientOpens(k)

\* A frame written by the server of connection k arrives.
AnyFrame(k, frame) ==
  /\ s2c[k] = <<>>
  /\ ClientReceive(k, frame, <<>>)
  /\ recv' = <<"client", k, frame>>

\* The frames the client wrote leave the connection.
AnyDrain(k) ==
  /\ c2s[k] # <<>>
  /\ c2s' = [c2s EXCEPT ![k] = <<>>]
  /\ recv' = <<>>
  /\ sent' = <<>>
  /\ UNCHANGED <<client, cstate, sstate, s2c, registry, outbox, nextId, budget>>

\* ---------------------------------------------------------- specifications
\* Two chat.js clients and the server: alice writes to bob, connections fail.
Senders == {"alice"}

Next ==
  \/ \E u \in Users : ClientInit(u, FALSE)
  \/ \E u \in Users : TimerFires(u, FALSE)
  \/ \E k \in Conns : ClientOnOpen(k)
  \/ \E k \in Conns : ClientOnMessage(k)
  \/ \E k \in Conns : ClientOnClose(k, FALSE)
  \/ \E u \in Senders, body \in {"", "hi"} :
        Len(client[u].elems) < MaxDeliveries /\ SendMessage(u, body)
  \/ \E u \in Senders, contact \in Users \ Senders : SelectContact(u, contact)
  \/ \E k \in Conns : ServerOnConnection(k)
  \/ \E k \in Conns : ServerOnMessage(k)
  \/ \E k \in Conns : ServerOnClose(k)

Spec == Init /\ [][Next]_vars

\* The server learns that a connection the client's end of which is gone has
\* closed.
ServerSeesClose(k) ==
  /\ cstate[k] = "closed"
  /\ ServerOnClose(k)

\* The two clients and the server where a connection ends only by a drop at
\* the client's end, and every handler whose event is pending runs: the event
\* loops of both sides run each pending callback, a scheduled timer fires, and
\* both pages are loaded.  Drops and the user's sends are not forced.
NextFair ==
  \/ \E u \in Users : ClientInit(u, FALSE)
  \/ \E u \in Users : TimerFires(u, FALSE)
  \/ \E k \in Conns : ClientOnOpen(k)
  \/ \E k \in Conns : ClientOnMessage(k)
  \/ \E k \in Conns : ClientOnClose(k, FALSE)
  \/ \E u \in Senders, body \in {"", "hi"} :
        Len(client[u].elems) < MaxDeliveries /\ SendMessage(u, body)
  \/ \E u \in Senders, contact \in Users \ Senders : SelectContact(u, contact)
  \/ \E k \in Conns : ServerOnConnection(k)
  \/ \E k \in Conns : ServerOnMessage(k)
  \/ \E k \in Conns : ServerSeesClose(k)

FairSpec ==
  /\ Init
  /\ [][NextFair]_vars
  /\ \A u \in Users : WF_vars(ClientInit(u, FALSE)) /\ WF_vars(TimerFires(u, FALSE))
  /\ \A k \in Conns :
       /\ WF_vars(ClientOnOpen(k))
       /\ WF_vars(ClientOnMessage(k))
       /\ WF_vars(ServerOnConnection(k))
       /\ WF_vars(ServerOnMessage(k))
       /\ WF_vars(ServerSeesClose(k))

\* The two clients and the server where alice sends several messages to bob:
\* alice picks bob once and keeps her connection, bob's connections drop, and
\* bob picks any contact at any time, which clears his container.
NextOrder ==
  \/ \E u \in Users : ClientInit(u, FALSE)
  \/ \E u \in Users \ Senders : TimerFires(u, FALSE)
  \/ \E k \in Conns : ClientOnOpen(k)
  \/ \E k \in Conns : ClientOnMessage(k)
  \/ \E k \in (Users \ Senders) \X Slots : ClientOnClose(k, FALSE)
  \/ \E u \in Senders : SendMessage(u, "hi")
  \/ \E u \in Senders, contact \in Users \ Senders :
        client[u].selectedContact = "" /\ SelectContact(u, contact)
  \/ \E u \in Users \ Senders, contact \in Users : SelectContact(u, contact)
  \/ \E k \in Conns : ServerOnConnection(k)
  \/ \E k \in Conns : ServerOnMessage(k)
  \/ \E k \in Conns : ServerSeesClose(k)

SpecOrder == Init /\ [][NextOrder]_vars

\* The connection lifecycle of one client alone, with failures enough to
\* exhaust its reconnection attempts.
ConnUsers == {"alice"}
ConnConns == ConnUsers \X Slots

InitConn == InitWith(MaxConnFailures)

NextConn ==
  \/ \E u \in ConnUsers, throws \in BOOLEAN : ClientInit(u, throws)
  \/ \E u \in ConnUsers, throws \in BOOLEAN : TimerFires(u, throws)
  \/ \E k \in ConnConns : ClientOnOpen(k)
  \/ \E k \in ConnConns, wasClean \in BOOLEAN : ClientOnClose(k, wasClean)
  \/ \E k \in ConnConns : ServerOnConnection(k)
  \/ \E k \in ConnConns : ServerSocketClosing(k)
  \/ \E k \in ConnConns : ServerOnClose(k)

SpecConn == InitConn /\ [][NextConn]_vars

\* The connection lifecycle of one client whose page calls ChatApp.init more
\* than once, so that several sockets of the client live at a time.
NextReinit ==
  \/ NextConn
  \/ \E u \in ConnUsers, throws \in BOOLEAN : ClientInitAgain(u, throws)

SpecReinit == InitConn /\ [][NextReinit]_vars

\* The server alone, under any clients: connections come and go and any
\* frame arrives on any of them.  bob holds up to NumSlots connections at a
\* time, alice one.
ServerConns == {<<"alice", 1>>} \cup ({"bob"} \X Slots)

InitServer == InitWith(0)

NextServer ==
  \/ \E k \in ServerConns : AnyConnection(k)
  \/ \E k \in ServerConns, frame \in AnyFrames : AnyMessage(k, frame)
  \/ \E k \in ServerConns : ServerSocketClosing(k)
  \/ \E k \in ServerConns : ServerOnClose(k)

SpecServer == InitServer /\ [][NextServer]_vars

\* The server alone, under requests with any credentials: a connection is
\* asked for under the name of its user or under none, with any token.
AuthFrames ==
  {[type |-> "send_message", clientMsgId |-> 1, to |-> "bob", body |-> "hi"],
   [type |-> "ack_message", serverMsgId |-> 1]}

AnyRequest(k, token, username) ==
  /\ k[2] \in FreeSlots(k[1])
  /\ ServerConnection(k, token, username)

NextAuth ==
  \/ \E k \in ServerConns, token \in Tokens :
        \E username \in {"", k[1]} : AnyRequest(k, token, username)
  \/ \E k \in ServerConns, frame \in AuthFrames : AnyMessage(k, frame)
  \/ \E k \in ServerConns : ServerOnClose(k)
  \/ \E k \in ServerConns : RejectedCloses(k)

SpecAuth == InitServer /\ [][NextAuth]_vars

\* One chat.js client alone, under any server, receiving: the connection
\* opens and fails, any message or batch arrives, the user selects contacts.
ClientUsers == {"bob"}
ClientConns == ClientUsers \X Slots

NextClient ==
  \/ \E u \in ClientUsers : ClientInit(u, FALSE)
  \/ \E u \in ClientUsers : TimerFires(u, FALSE)
  \/ \E k \in ClientConns : AnyOpen(k)
  \/ \E k \in ClientConns, frame \in MessageFrames \cup OtherFrames : AnyFrame(k, frame)
  \/ \E k \in ClientConns : AnyDrain(k)
  \/ \E k \in ClientConns, wasClean \in BOOLEAN : ClientOnClose(k, wasClean)
  \/ \E u \in ClientUsers, contact \in Users : SelectContact(u, contact)

SpecClient == Init /\ [][NextClient]_vars

\* One chat.js client alone, under any server, sending: the user sends, any
\* receipt arrives, and so do a message, a presence update and an error.
FirstIncoming ==
  {f \in MessageFrames : f.type = "incoming_message" /\ f.serverMsgId = 1}

NextSender ==
  \/ \E u \in ClientUsers : ClientInit(u, FALSE)
  \/ \E u \in ClientUsers : TimerFires(u, FALSE)
  \/ \E k \in ClientConns : AnyOpen(k)
  \/ \E k \in ClientConns, frame \in ReceiptFrames \cup FirstIncoming \cup OtherFrames :
        AnyFrame(k, frame)
  \/ \E k \in ClientConns : AnyDrain(k)
  \/ \E k \in ClientConns, wasClean \in BOOLEAN : ClientOnClose(k, wasClean)
  \/ \E u \in ClientUsers, body \in {"", "hi"} : SendMessage(u, body)
  \/ \E u \in ClientUsers, contact \in Users : SelectContact(u, contact)

SpecSender == Init /\ [][NextSender]_vars

\* ------------------------------------------------------------------ claims
\* C9: the client never makes more than 5 consecutive failed reconnection
\* attempts: the attempt counter stays in 0..5 in every reachable state, on the
\* path of an unexpected close and on the path of a failure raised while
\* opening the transport alike.
C9_AttemptsAtMostFive ==
  \A u \in Users : client[u].reconnectAttempts \in 0..MAX_RECONNECT_ATTEMPTS

\* C10: the delay scheduled for reconnection attempt k, k being the attempt
\* counter after its increment, is 1000, 2000, 4000, 8000, 16000 ms for
\* k = 1..5.
C10_BackoffDelay ==
  LET delays == <<1000, 2000, 4000, 8000, 16000>>
  IN \A u \in Users :
       (client[u].reconnectTimer # 0 /\ client[u].reconnectAttempts \in 1..5)
         => client[u].reconnectTimer = delays[client[u].reconnectAttempts]

\* The fifth attempt is scheduled, after 16 s.
C10_Witness ==
  \E u \in Users : client[u].reconnectAttempts = 5 /\ client[u].reconnectTimer = 16000

\* The frame the server's 'message' handler got in the step that ends here,
\* and who sent it.
ServerGot(r, type) == r # <<>> /\ r[1] = "server" /\ r[3].type = type
GotFrom(r) == r[2][1]
GotFrame(r) == r[3]

\* The frames of one type among the writes of a server handler.
Written(writes, type) == {i \in 1..Len(writes) : writes[i][2].type = type}

\* C3: an Outbox entry is removed exactly in the step in which the server
\* handles an ack_message naming its serverMsgId that comes from the user the
\* entry is addressed to; no connect, close, send, ping or ack of another user
\* removes an entry.
C3_RemovedOnlyByRecipientAck ==
  [][\A i \in 1..Len(outbox) :
       (~HasMessage(outbox', outbox[i].serverMsgId))
         <=> (/\ ServerGot(recv', "ack_message")
              /\ GotFrame(recv').serverMsgId = outbox[i].serverMsgId
              /\ GotFrom(recv') = outbox[i].to)]_vars

\* bob's acknowledgment of a message the server accepted has just been
\* handled, and the message is gone.
C3_Witness ==
  /\ ServerGot(recv, "ack_message")
  /\ GotFrom(recv) = "bob"
  /\ GotFrame(recv).serverMsgId \in 1..(nextId - 1)
  /\ ~HasMessage(outbox, GotFrame(recv).serverMsgId)

\* C4: a valid send_message appends exactly one entry, with a new id, to the
\* Outbox whether or not the recipient is reachable, and one incoming_message
\* is written in the same step, to the registered socket of `to`, if and only
\* if the registry holds a socket for `to` whose readyState is OPEN.
C4_StoreAlwaysForwardIfOpen ==
  [][(ServerGot(recv', "send_message") /\ ValidSend(GotFrame(recv')))
       => LET f == GotFrame(recv')
              fw == Written(sent', "incoming_message")
          IN /\ outbox' = Append(outbox,
                            [serverMsgId |-> nextId, clientMsgId |-> f.clientMsgId,
                             from |-> GotFrom(recv'), to |-> f.to, body |-> f.body])
             /\ ~HasMessage(outbox, nextId)
             /\ (fw # {}) <=> (registry[f.to] # 0 /\ sstate[<<f.to, registry[f.to]>>] = "open")
             /\ Cardinality(fw) <= 1
             /\ \A i \in fw : /\ sent'[i][1] = <<f.to, registry[f.to]>>
                              /\ sent'[i][2].serverMsgId = nextId
                              /\ sent'[i][2].from = GotFrom(recv')]_vars

\* A message has just been forwarded to bob and is in the Outbox.
C4_Witness ==
  /\ ServerGot(recv, "send_message")
  /\ \E i \in Written(sent, "incoming_message") :
        /\ sent[i][1][1] = "bob"
        /\ HasMessage(outbox, sent[i][2].serverMsgId)

\* C6: for every valid send_message a receipt ack_message with the
\* new serverMsgId and the sender's clientMsgId is written to the sender.
C6_ReceiptAlways ==
  [][(ServerGot(recv', "send_message") /\ ValidSend(GotFrame(recv')))
       => \E i \in Written(sent', "ack_message") :
            /\ sent'[i][1][1] = GotFrom(recv')
            /\ sent'[i][2].serverMsgId = nextId
            /\ sent'[i][2].clientMsgId = GotFrame(recv').clientMsgId]_vars

\* C8: handling an ack_message writes no frame and changes neither the
\* registry, the sockets nor the id counter; when the id it names is not in
\* the Outbox, the Outbox is unchanged too; and after it the Outbox holds no
\* entry with that id addressed to the acknowledging user, so that the same
\* frame from the same user a second time changes nothing.
C8_AckIdempotent ==
  [][ServerGot(recv', "ack_message")
       => LET id == GotFrame(recv').serverMsgId
              u == GotFrom(recv')
          IN /\ sent' = <<>>
             /\ registry' = registry /\ sstate' = sstate /\ nextId' = nextId
             /\ ~HasMessage(outbox, id) => outbox' = outbox
             /\ ~(HasMessage(outbox', id) /\ getMessage(outbox', id).to = u)
             /\ handleAckMessage(u, GotFrame(recv'), outbox') = outbox']_vars

\* An acknowledgment of an id the server never gave has just been handled,
\* with a message in the Outbox.
C8_Witness ==
  /\ ServerGot(recv, "ack_message")
  /\ GotFrame(recv).serverMsgId >= nextId
  /\ outbox # <<>>

\* The frame the client's 'message' handler got in the step that ends here.
ClientGot(r, u, type) ==
  r # <<>> /\ r[1] = "client" /\ r[2][1] = u /\ r[3].type = type

\* C2: within one session of the client, every serverMsgId has at most one
\* visual entry: the container never holds two entries for one id, an entry
\* for an id is added only when the id was not seen before, and an id once
\* seen stays seen, over incoming_message and undelivered_batch frames,
\* reconnects and changes of the selected contact.
C2_AtMostOneRender ==
  [][\A u \in Users, id \in 1..MaxMsgs :
       /\ Count(client[u].container', <<"received", id>>) <= 1
       /\ client[u].seenMessageIds \subseteq client[u].seenMessageIds'
       /\ id \in client[u].seenMessageIds
            => Count(client[u].container', <<"received", id>>)
                 <= Count(client[u].container, <<"received", id>>)]_vars

\* A batch that holds one id twice has just been handled on a connection
\* opened after a drop, and the id has one entry.
C2_Witness ==
  /\ ClientGot(recv, "bob", "undelivered_batch")
  /\ budget < MaxDrops
  /\ Len(recv[3].messages) = 2
  /\ recv[3].messages[1].serverMsgId = recv[3].messages[2].serverMsgId
  /\ Count(client["bob"].container, <<"received", recv[3].messages[1].serverMsgId>>) = 1

\* C7: a message element leaves the pending state only in the step in which
\* the client handles an ack_message frame carrying the element's own
\* clientMsgId; no timer, open, close, presence update, error, incoming
\* message, send, contact change or ack with another clientMsgId confirms it,
\* and the elements and their pending entries are otherwise kept.
C7_ConfirmedOnlyByOwnAck ==
  [][\A u \in Users :
       /\ Len(client[u].elems') >= Len(client[u].elems)
       /\ \A i \in 1..Len(client[u].elems) :
            /\ (client[u].elems[i].pending /\ ~client[u].elems'[i].pending)
                 => (ClientGot(recv', u, "ack_message") /\ recv'[3].clientMsgId = i)
            /\ (~client[u].elems[i].delivered /\ client[u].elems'[i].delivered)
                 => (ClientGot(recv', u, "ack_message") /\ recv'[3].clientMsgId = i)
            /\ (i \in client[u].pendingMessages /\ i \notin client[u].pendingMessages')
                 => (ClientGot(recv', u, "ack_message") /\ recv'[3].clientMsgId = i)]_vars

\* The receipt for the second message has just confirmed it, and the first
\* message, sent before, is still pending.
C7_Witness ==
  /\ ClientGot(recv, "bob", "ack_message")
  /\ recv[3].clientMsgId = 2
  /\ Len(client["bob"].elems) = 2
  /\ client["bob"].elems[2].delivered
  /\ client["bob"].elems[1].pending
  /\ 1 \in client["bob"].pendingMessages

\* C1: every message the server accepted is eventually received by the client
\* of the user it is addressed to and its Outbox entry is eventually removed by
\* that user's acknowledgment, the recipient reconnecting after every drop; in
\* particular a message the recipient's client has received and whose entry is
\* still in the Outbox, its acknowledgment not sent or lost in a drop, has its
\* entry eventually removed.
C1_ReceivedIsEventuallyAcked ==
  \A id \in 1..MaxMsgs, u \in Users :
    (/\ HasMessage(outbox, id)
     /\ getMessage(outbox, id).to = u
     /\ id \in client[u].seenMessageIds)
      ~> ~HasMessage(outbox, id)

\* C5: a sender's message is never shown as confirmed (delivered) before the
\* recipient's client has received that message: the ack_message that confirms
\* it comes from the recipient's receipt handler, not from the server at
\* submit time.
C5_ConfirmedOnlyAfterReceipt ==
  \A u \in Senders :
    \A i \in 1..Len(client[u].elems) :
      client[u].elems[i].delivered
        => \E v \in Users \ {u} : client[u].elems[i].serverMsgId \in client[v].seenMessageIds

\* A socket of u is opened, or is closed, in the step.
OpensIn(cs, cs2, u) ==
  \E s \in Slots : cs[<<u, s>>] = "connecting" /\ cs2[<<u, s>>] = "open"

ClosesIn(cs, cs2, u) ==
  \E s \in Slots : cs[<<u, s>>] # "closed" /\ cs2[<<u, s>>] = "closed"

\* C11: every successful open sets the attempt counter to zero; the counter
\* changes only by that reset or by an increment of one; the first reconnection
\* scheduled after a reset is attempt 1 with the first delay; and the client
\* shows the connection as failed for good only with five or more attempts
\* counted since the last open.
C11_OpenResetsAttempts ==
  [][\A u \in Users :
       /\ OpensIn(cstate, cstate', u) => client'[u].reconnectAttempts = 0
       /\ client'[u].reconnectAttempts # client[u].reconnectAttempts
            => \/ client'[u].reconnectAttempts = client[u].reconnectAttempts + 1
               \/ client'[u].reconnectAttempts = 0 /\ OpensIn(cstate, cstate', u)
       /\ (client[u].reconnectAttempts = 0 /\ client'[u].reconnectAttempts # 0)
            => (client'[u].reconnectAttempts = 1 /\ client'[u].reconnectTimer = 1000)
       /\ client'[u].status = "Connection failed. Please refresh."
            => client'[u].reconnectAttempts >= 5]_vars

\* After two failures or more, the pending reconnection is attempt 1 again:
\* an open came between them.
C11_Witness ==
  \E u \in Users :
    /\ budget <= MaxConnFailures - 2
    /\ client[u].reconnectAttempts = 1
    /\ client[u].reconnectTimer = 1000
    /\ client[u].timers = 1

\* C12: a clean close of the client's connection schedules no reconnection and
\* leaves the attempt counter as it is, whatever its value; a reconnection is
\* scheduled only in the step of an unclean close or of a failure to open.
C12_CleanCloseNoReconnect ==
  [][\A u \in Users :
       /\ (ClosesIn(cstate, cstate', u) /\ budget' = budget)
            => /\ client'[u].reconnectAttempts = client[u].reconnectAttempts
               /\ client'[u].reconnectTimer = client[u].reconnectTimer
               /\ client'[u].timers = client[u].timers
       /\ (client'[u].timers > client[u].timers
           \/ (client'[u].reconnectTimer # 0 /\ client[u].reconnectTimer = 0))
            => budget' < budget]_vars

\* A connection that was being opened after failed attempts was closed cleanly:
\* the counter is kept and nothing is scheduled.
C12_Witness ==
  \E u \in Users :
    /\ client[u].status = "Disconnected"
    /\ client[u].reconnectAttempts \in 1..(MAX_RECONNECT_ATTEMPTS - 1)
    /\ client[u].timers = 0
    /\ \A s \in Slots : cstate[<<u, s>>] = "closed"

\* C13: at most one reconnection timer is pending per client in every state,
\* and a schedule request made while one is pending changes nothing: no second
\* timer, no increment of the attempt counter, no change of the pending delay.
C13_OneTimerPending ==
  [][\A u \in Users :
       /\ client'[u].timers <= 1
       /\ client[u].reconnectTimer # 0 => scheduleReconnect(client[u]) = client[u]
       /\ (client[u].timers >= 1 /\ ClosesIn(cstate, cstate', u) /\ budget' < budget)
            => /\ client'[u].timers = client[u].timers
               /\ client'[u].reconnectAttempts = client[u].reconnectAttempts
               /\ client'[u].reconnectTimer = client[u].reconnectTimer]_vars

\* A close was handled while a timer was pending, after an open had reset the
\* counter: the timer is still the only one and the counter is still zero.
C13_Witness ==
  \E u \in Users :
    /\ client[u].status = "Disconnected"
    /\ client[u].timers = 1
    /\ client[u].reconnectTimer # 0
    /\ client[u].reconnectAttempts = 0
    /\ budget <= MaxConnFailures - 2

\* The server registers connection k in the step.
ConnectsIn(rs, rs2, k) == rs[k] # "open" /\ rs2[k] = "open"

\* C14: on connect the server writes to the connecting socket one
\* undelivered_batch holding exactly the Outbox entries addressed to the
\* connecting user, in their order, and no batch when there are none, and
\* leaves the Outbox as it is, so that an entry not acknowledged is in the
\* batch of every later connect of that user; and the entry is gone after the
\* step that handles that user's ack_message for it.
C14_BatchOnConnect ==
  [][/\ \A k \in Conns :
          ConnectsIn(sstate, sstate', k)
            => LET mine == SelectSeq(outbox, LAMBDA m : m.to = k[1])
                   batches == Written(sent', "undelivered_batch")
               IN /\ outbox' = outbox
                  /\ (batches = {}) <=> (mine = <<>>)
                  /\ Cardinality(batches) <= 1
                  /\ \A i \in batches :
                       /\ sent'[i][1] = k
                       /\ sent'[i][2].messages =
                            [j \in 1..Len(mine) |->
                               [serverMsgId |-> mine[j].serverMsgId,
                                from |-> mine[j].from, body |-> mine[j].body]]
     /\ \A j \in 1..Len(outbox) :
          (/\ ServerGot(recv', "ack_message")
           /\ GotFrom(recv') = outbox[j].to
           /\ GotFrame(recv').serverMsgId = outbox[j].serverMsgId)
            => ~HasMessage(outbox', outbox[j].serverMsgId)]_vars

\* bob has just connected on his second connection and got a batch of two
\* messages, both still in the Outbox.
C14_Witness ==
  \E i \in Written(sent, "undelivered_batch") :
    /\ sent[i][1] = <<"bob", 2>>
    /\ Len(sent[i][2].messages) = 2
    /\ \A j \in 1..2 : HasMessage(outbox, sent[i][2].messages[j].serverMsgId)

\* The connection request the server got in the step that ends here.
ServerGotRequest(r) == r # <<>> /\ r[1] = "connect"

\* C15: a connection request with no token, with no user name, or with a token
\* that names another user, is not signed with the secret or is too old, is
\* rejected before any registration: registry and Outbox stay as they are (a
\* socket the user has registered stays registered), no frame is written to
\* anyone, so no presence update and no batch, and the later close of the
\* rejected connection changes neither the registry nor writes any frame.
C15_RejectedBeforeRegistration ==
  [][/\ ServerGotRequest(recv')
          => LET k == recv'[2]
                 token == recv'[3].token
                 username == recv'[3].username
                 bad == \/ ~token.present
                        \/ username = ""
                        \/ token.user # username
                        \/ ~token.signed
                        \/ token.expired
             IN /\ bad => /\ registry' = registry
                          /\ outbox' = outbox
                          /\ nextId' = nextId
                          /\ sent' = <<>>
                          /\ s2c' = s2c
                          /\ sstate'[k] = "rejected"
                /\ ~bad => registry'[k[1]] = k[2]
     /\ \A k \in Conns :
          (sstate[k] = "rejected" /\ sstate'[k] # "rejected")
            => /\ registry' = registry
               /\ outbox' = outbox
               /\ sent' = <<>>
               /\ sstate'[k] = "closed"
     /\ \A u \in Users :
          registry'[u] # 0 => sstate'[<<u, registry'[u]>>] # "rejected"]_vars

\* A request under bob's name with a token that does not validate has just
\* been rejected while bob is registered on another connection and a message
\* for bob is in the Outbox.
C15_Witness ==
  /\ ServerGotRequest(recv)
  /\ recv[2][1] = "bob"
  /\ recv[3].username = "bob"
  /\ recv[3].token.present
  /\ sstate[recv[2]] = "rejected"
  /\ registry["bob"] # 0
  /\ registry["bob"] # recv[2][2]
  /\ \E j \in 1..Len(outbox) : outbox[j].to = "bob"

\* C16: the client writes an ack_message for a serverMsgId only for a message
\* it has rendered: in the step in which it writes the acknowledgment, the
\* message's entry is in the container, whichever contact is selected.
C16_AckOnlyRendered ==
  [][\A k \in Conns :
       \A i \in (Len(c2s[k]) + 1)..Len(c2s'[k]) :
         c2s'[k][i].type = "ack_message"
           => Count(client'[k[1]].container,
                    <<"received", c2s'[k][i].serverMsgId>>) >= 1]_vars

\* An ack_message from a user other than the one the entry it names is
\* addressed to is handled in the step.
MismatchedAck(r, box) ==
  /\ ServerGot(r, "ack_message")
  /\ HasMessage(box, GotFrame(r).serverMsgId)
  /\ getMessage(box, GotFrame(r).serverMsgId).to # GotFrom(r)

\* C17: after an ack_message that names a serverMsgId in the Outbox and comes
\* from a user other than the entry's `to`, the entry is absent from the
\* Outbox.
C17_MismatchedAckRemoves ==
  [][MismatchedAck(recv', outbox)
       => ~HasMessage(outbox', GotFrame(recv').serverMsgId)]_vars

\* C17, amended: an ack_message that names a serverMsgId in the Outbox and
\* comes from a user other than the entry's `to` is ignored: the user is
\* compared before anything is removed, the entry stays and the Outbox is
\* unchanged, and no frame is written.
C17_MismatchedAckIgnored ==
  [][MismatchedAck(recv', outbox)
       => /\ outbox' = outbox
          /\ HasMessage(outbox', GotFrame(recv').serverMsgId)
          /\ sent' = <<>>]_vars

\* alice has just acknowledged a message addressed to bob, and it is still in
\* the Outbox.
C17_Witness ==
  /\ MismatchedAck(recv, outbox)
  /\ GotFrom(recv) = "alice"
  /\ getMessage(outbox, GotFrame(recv).serverMsgId).to = "bob"

\* C18: a send_message frame in which clientMsgId, to or body is missing or
\* empty has no effect on the server: no message is stored and no id is used,
\* the Outbox, the registry and the sockets are as before, and no frame is
\* written, neither a forward nor a receipt nor an error.
C18_InvalidSendDropped ==
  [][(/\ ServerGot(recv', "send_message")
      /\ \/ GotFrame(recv').clientMsgId = 0
         \/ GotFrame(recv').to = ""
         \/ GotFrame(recv').body = "")
       => /\ outbox' = outbox
          /\ nextId' = nextId
          /\ registry' = registry
          /\ sstate' = sstate
          /\ s2c' = s2c
          /\ sent' = <<>>]_vars

\* A send_message with an empty body has just been handled while both users
\* are registered with open sockets.
C18_Witness ==
  /\ ServerGot(recv, "send_message")
  /\ GotFrame(recv).body = ""
  /\ GotFrame(recv).to = "bob"
  /\ RegisteredOpen(registry, sstate, "bob")
  /\ RegisteredOpen(registry, sstate, "alice")
  /\ GotFrom(recv) = "alice"

\* C19: a send made while the client's socket is not open marks the new
\* element failed at once and writes no frame; a send_message frame is written
\* only in the step that creates its element, on an open socket, so that a
\* failed message is not transmitted after a reconnection either; and a send
\* with an empty body or with no contact selected creates no element and no
\* pending entry and writes nothing.
C19_FailedSendNotTransmitted ==
  [][\A u \in Users :
       LET n == Len(client[u].elems)
           n2 == Len(client'[u].elems)
       IN /\ n2 > n
               => /\ n2 = n + 1
                  /\ client[u].selectedContact # ""
                  /\ client'[u].elems[n2].failed = ~SocketOpen(u)
                  /\ ~SocketOpen(u) => c2s' = c2s
          /\ \A s \in Slots :
               \A i \in (Len(c2s[<<u, s>>]) + 1)..Len(c2s'[<<u, s>>]) :
                 c2s'[<<u, s>>][i].type = "send_message"
                   => /\ n2 = n + 1
                      /\ c2s'[<<u, s>>][i].clientMsgId = n2
                      /\ ~client'[u].elems[n2].failed
                      /\ SocketOpen(u)
          /\ \A i \in 1..n : client'[u].elems[i].failed = client[u].elems[i].failed
          /\ \A open \in BOOLEAN, body \in {"", "hi"} :
               (body = "" \/ client[u].selectedContact = "")
                 => sendMessage(client[u], body, open) = [c |-> client[u], out |-> <<>>]]_vars

\* A message sent while the socket was not open is marked failed; the socket
\* is open now, and no frame is on its way.
C19_Witness ==
  \E u \in Users :
    /\ Len(client[u].elems) >= 1
    /\ client[u].elems[1].failed
    /\ SocketOpen(u)
    /\ \A s \in Slots : c2s[<<u, s>>] = <<>>

\* The 'close' event of connection k is handled in the step.
CloseIn(rs, rs2, k) == rs[k] \in {"open", "closing"} /\ rs2[k] = "closed"

\* C20: when a newer connection of a user has replaced an older one in the
\* registry and the older one's close is handled afterwards, the newer
\* connection stays registered, so the user stays reachable for a direct
\* forward, and no presence update saying the user is offline is written.
C20_StaleCloseKeepsNewer ==
  [][\A k \in Conns :
       (/\ CloseIn(sstate, sstate', k)
        /\ registry[k[1]] # 0
        /\ registry[k[1]] # k[2]
        /\ sstate[<<k[1], registry[k[1]]>>] = "open")
         => /\ registry'[k[1]] = registry[k[1]]
            /\ RegisteredOpen(registry', sstate', k[1])
            /\ \A i \in Written(sent', "presence_update") :
                 ~(sent'[i][2].user = k[1] /\ sent'[i][2].status = "offline")]_vars

\* C21: the messages the server accepted from one sender for one recipient
\* are rendered by the recipient's client for the first time in the order in
\* which they were accepted (the order of their ids): when the entry of a
\* message is added, every message accepted before it has been handled by the
\* client before, in an earlier step or earlier in the same batch, over direct
\* forwards, batches, drops and reconnects.
C21_RenderedInAcceptOrder ==
  [][\A u \in Users \ Senders :
       LET old == client[u].container
           new == client'[u].container
       IN \A j \in (Len(old) + 1)..Len(new) :
            new[j][1] = "received"
              => /\ new[j][2] \notin client[u].seenMessageIds
                 /\ \A id \in 1..(new[j][2] - 1) :
                      \/ id \in client[u].seenMessageIds
                      \/ \E i \in (Len(old) + 1)..(j - 1) : new[i] = <<"received", id>>]_vars

\* bob shows two messages of alice in the order of their ids after one of his
\* connections has dropped.
C21_Witness ==
  /\ budget < MaxDrops
  /\ client["bob"].container = << <<"received", 1>>, <<"received", 2>> >>
  /\ nextId = 3

====
